---- MODULE Spec2Model ----
(***************************************************************************)
(* Model of segment/tf_loss.py: ComputeLoss.build_targets (the Target      *)
(* Assigner) and ComputeLoss.__call__ (the Loss Aggregator).               *)
(*                                                                         *)
(* Coordinates are exact fixed-point numbers.  A normalized coordinate is  *)
(* an integer n standing for n/XD; after the multiplication by the grid    *)
(* gain, a grid coordinate is an integer g standing for g/XD cells.        *)
(* Loss values are exact rationals <<num, den>>.                           *)
(***************************************************************************)
EXTENDS Integers, Sequences, FiniteSets, TLC

\* ------------------------------------------------------------------ bounds
na == 2          \* number of anchors per layer
nl == 2          \* number of detection layers
bs == 2          \* batch size (proto.shape[0], p[0].shape[0])
XD == 8          \* resolution of a normalized coordinate: n stands for n/XD
WMaxD == 4       \* largest target width/height, in units of 1/XD
MaxNt == 3       \* longest ground-truth instance list
MaxCalls == 2    \* number of loss calls made on one ComputeLoss object
GtPixels == 3    \* pixels of a ground-truth mask, flattened

\* ------------------------------------------------------ program constants
anchor_t == 4    \* anchor-ratio threshold
nc == 2          \* number of classes

\* ---------------------------------------------------------------- helpers
Range(f) == {f[x] : x \in DOMAIN f}

Min(a, b) == IF a < b THEN a ELSE b

Max(a, b) == IF a > b THEN a ELSE b

Abs(a) == IF a < 0 THEN -a ELSE a

RECURSIVE Pow2(_)
Pow2(n) == IF n = 0 THEN 1 ELSE 2 * Pow2(n - 1)

RECURSIVE GCD(_, _)
GCD(a, b) == IF b = 0 THEN a ELSE GCD(b, a % b)

\* exact rationals <<num, den>>, den > 0, in lowest terms
Rat(n, d) ==
    LET s == IF d < 0 THEN -1 ELSE 1
        g == GCD(Abs(n), Abs(d))
    IN  IF n = 0 THEN <<0, 1>> ELSE <<(s * n) \div g, (s * d) \div g>>

RAdd(p, q) == Rat(p[1] * q[2] + q[1] * p[2], p[2] * q[2])

RMul(p, q) == Rat(p[1] * q[1], p[2] * q[2])

RDiv(p, q) == Rat(p[1] * q[2], p[2] * q[1])

RLess(p, q) == p[1] * q[2] < q[1] * p[2]

RZero == <<0, 1>>

RSub(p, q) == RAdd(p, <<-q[1], q[2]>>)

RMin(p, q) == IF RLess(q, p) THEN q ELSE p

\* tf.clip_by_value / ndarray.clip on one rational
RClip(v, lo, hi) == IF RLess(v, lo) THEN lo ELSE IF RLess(hi, v) THEN hi ELSE v

RECURSIVE RSum(_)
RSum(s) ==
    IF Len(s) = 0 THEN RZero
    ELSE IF Len(s) = 1 THEN s[1]
    ELSE LET h == Len(s) \div 2
         IN  RAdd(RSum(SubSeq(s, 1, h)), RSum(SubSeq(s, h + 1, Len(s))))

\* astype(tf.int32) of the float n/d: truncation toward zero
TruncDiv(n, d) == IF n >= 0 THEN n \div d ELSE -((-n) \div d)

\* tf.clip_by_value(v, lo, hi)
ClipByValue(v, lo, hi) == Min(Max(v, lo), hi)

RECURSIVE Concat(_)
Concat(ss) == IF ss = <<>> THEN <<>> ELSE Head(ss) \o Concat(Tail(ss))

\* ------------------------------------------------------------ configuration
\* self.grids[i] = [gy, gx]: rows, columns of layer i; layer i is twice as
\* fine as layer i+1, the coarsest layer has the base shape.
BaseShapes == {<<1, 1>>, <<1, 2>>, <<2, 1>>}

Layers == 0 .. (nl - 1)

grids(base) == [i \in Layers |-> <<base[1] * Pow2(nl - 1 - i), base[2] * Pow2(nl - 1 - i)>>]

\* self.anchors[i][a] = (w, h) of anchor a at layer i, in units of 1/XD cell
anchors(i, a) == <<(1 + 3 * a) * (i + 1), (1 + a) * (i + 1)>>

\* variant: the neighbor offsets are a whole cell instead of half a cell
offWholeCell == <<<<0, 0>>, <<2, 0>>, <<0, 2>>, <<-2, 0>>, <<0, -2>>>>

\* off = [[0,0],[1,0],[0,1],[-1,0],[0,-1]] * g with g = 0.5: the entries
\* below are the integer rows, each standing for half a cell
off == <<<<0, 0>>, <<1, 0>>, <<0, 1>>, <<-1, 0>>, <<0, -1>>>>

\* --------------------------------------------------------- build_targets
\* number of targets of image idx (tf.reduce_sum(targets[:, 0:1] == idx))
NumOfImage(targets, idx) == Cardinality({k \in 1 .. Len(targets) : targets[k].img = idx})

\* overlap mode: concatenation over idx = 0..batch_size-1 of range(num) + 1
RECURSIVE TiOverlap(_, _, _)
TiOverlap(targets, idx, batch_size) ==
    IF idx >= batch_size THEN <<>>
    ELSE [k \in 1 .. NumOfImage(targets, idx) |-> k] \o TiOverlap(targets, idx + 1, batch_size)

\* ti: one row of the [na, nt] running-index matrix
Ti(targets, overlap, batch_size) ==
    IF overlap THEN TiOverlap(targets, 0, batch_size)
    ELSE [k \in 1 .. Len(targets) |-> k - 1]

\* targets = concat(tile(targets), ai, ti), flattened row-major over [na, nt]
\* and multiplied by gain = [1, 1, gx, gy, gx, gy, 1, 1] of layer i
\* (shape[[1, 0, 1, 0]]: x and w by shape[1], y and h by shape[0]).
\* src is the position of the instance in the ground-truth list.
ScaledTargets(targets, overlap, batch_size, shape) ==
    LET nt == Len(targets)
        ti == Ti(targets, overlap, batch_size)
    IN  [m \in 1 .. (na * nt) |->
            LET a == (m - 1) \div nt
                k == ((m - 1) % nt) + 1
            IN  [b |-> targets[k].img, cls |-> targets[k].cls,
                 gx |-> targets[k].x * shape[2], gy |-> targets[k].y * shape[1],
                 gw |-> targets[k].w * shape[2], gh |-> targets[k].h * shape[1],
                 a |-> a, tidx |-> ti[k], src |-> k]]

\* variant: only the ratio r is compared, not its reciprocal
RatioBelowNoReciprocal(gw, aw) == gw < anchor_t * aw

\* max(r, 1/r) < anchor_t for r = gw/aw; r = 0 gives 1/r = inf
RatioBelow(gw, aw) == gw # 0 /\ gw < anchor_t * aw /\ aw < anchor_t * gw

\* j = reduce_max(maximum(r, 1/r), axis=-1) < self.anchor_t
AnchorMatch(i, t) ==
    /\ RatioBelow(t.gw, anchors(i, t.a)[1])
    /\ RatioBelow(t.gh, anchors(i, t.a)[2])

\* variant: a center at the middle of its cell counts as in the left/up half
LeftUpOrEqual(gc) == (2 * (gc % XD) <= XD) /\ (gc < XD)

\* (gxy % 1 < g) & (gxy < 1), one coordinate
LeftUp(gc) == (2 * (gc % XD) < XD) /\ (gc < XD)

\* (gxi % 1 < g) & (gxi > 1) with gxi = gain - gxy, one coordinate
RightDown(gc, dim) ==
    LET gxi == dim * XD - gc
    IN  (2 * (gxi % XD) < XD) /\ (gxi > XD)

\* row o of the [5, nt] duplication mask (ones, j, k, l, m)
DupFlag(o, t, shape) ==
    CASE o = 1 -> TRUE
      [] o = 2 -> LeftUp(t.gx)
      [] o = 3 -> LeftUp(t.gy)
      [] o = 4 -> RightDown(t.gx, shape[2])
      [] o = 5 -> RightDown(t.gy, shape[1])

\* lines 311-338: t after the anchor filter and after the 5-fold tile
\* filtered by the mask: offset-major, then the surviving pairs in
\* anchor-major order
ExpandNonEmpty(i, targets, overlap, batch_size, shape) ==
    LET st == ScaledTargets(targets, overlap, batch_size, shape)
        t  == SelectSeq(st, LAMBDA e : AnchorMatch(i, e))
        Row(o) == LET sel == SelectSeq(t, LAMBDA e : DupFlag(o, e, shape))
                  IN  [n \in 1 .. Len(sel) |->
                         [b |-> sel[n].b, cls |-> sel[n].cls, gx |-> sel[n].gx, gy |-> sel[n].gy,
                          gw |-> sel[n].gw, gh |-> sel[n].gh, a |-> sel[n].a,
                          tidx |-> sel[n].tidx, src |-> sel[n].src, o |-> o]]
    IN  Concat([o \in 1 .. 5 |-> Row(o)])

\* variant: an empty list yields one dummy entry instead of none
ExpandedDummy(i, targets, overlap, batch_size, shape) ==
    IF Len(targets) = 0
    THEN <<[b |-> 0, cls |-> 0, gx |-> 0, gy |-> 0, gw |-> 1, gh |-> 1,
            a |-> 0, tidx |-> 0, src |-> 0, o |-> 1]>>
    ELSE ExpandNonEmpty(i, targets, overlap, batch_size, shape)

\* if nt: ... else: t = targets[0], the empty [0, 8] slice
Expanded(i, targets, overlap, batch_size, shape) ==
    IF Len(targets) = 0 THEN <<>>
    ELSE ExpandNonEmpty(i, targets, overlap, batch_size, shape)

\* gij = clip((gxy - offsets).astype(int32), [0, 0], [shape[0]-1, shape[1]-1])
Gij(e, shape) ==
    LET cx == TruncDiv(2 * e.gx - off[e.o][1] * XD, 2 * XD)
        cy == TruncDiv(2 * e.gy - off[e.o][2] * XD, 2 * XD)
    IN  <<ClipByValue(cx, 0, shape[1] - 1), ClipByValue(cy, 0, shape[2] - 1)>>

\* self.anchors[i][tf.squeeze(ai)]: squeeze drops every axis of size 1, so a
\* single entry indexes with a scalar and yields the bare (w, h) pair
SqueezeGather(i, ais) ==
    IF Len(ais) = 1 THEN anchors(i, ais[1])
    ELSE [n \in 1 .. Len(ais) |-> anchors(i, ais[n])]

\* the assignment record of layer i
LayerTargets(i, targets, overlap, batch_size, shape) ==
    LET t == Expanded(i, targets, overlap, batch_size, shape)
        N == 1 .. Len(t)
    IN  [tcls    |-> [n \in N |-> t[n].cls],
         tbox    |-> [n \in N |-> <<t[n].gx - Gij(t[n], shape)[1] * XD,
                                    t[n].gy - Gij(t[n], shape)[2] * XD,
                                    t[n].gw, t[n].gh>>],
         indices |-> [n \in N |-> <<t[n].b, t[n].a, Gij(t[n], shape)[1], Gij(t[n], shape)[2]>>],
         anchors |-> SqueezeGather(i, [n \in N |-> t[n].a]),
         tidxs   |-> [n \in N |-> t[n].tidx],
         xywhn   |-> [n \in N |-> <<t[n].gx \div shape[2], t[n].gy \div shape[1],
                                    t[n].gw \div shape[2], t[n].gh \div shape[1]>>],
         src     |-> [n \in N |-> t[n].src],
         o       |-> [n \in N |-> t[n].o]]

build_targets(targets, overlap, batch_size, gr) ==
    [i \in Layers |-> LayerTargets(i, targets, overlap, batch_size, gr[i])]

\* ------------------------------------------------------------ loss terms
box_lg == <<1, 200>>    \* box loss gain 0.005
obj_lg == <<1, 1>>      \* object loss gain 1.0
cls_lg == <<1, 2>>      \* class loss gain 0.5

\* {3: [4.0, 1.0, 0.4]}.get(n, [4.0, 1.0, 0.25, 0.06, 0.02])
BalanceTable(n) ==
    IF n = 3 THEN <<<<4, 1>>, <<1, 1>>, <<2, 5>>>>
    ELSE <<<<4, 1>>, <<1, 1>>, <<1, 4>>, <<3, 50>>, <<1, 50>>>>

\* self.balance = {3: [4.0, 1.0, 0.4]}.get(self.nl, [4.0, 1.0, 0.25, 0.06, 0.02])
InitBalance == BalanceTable(nl)

\* variant: the objectness loss of a layer is added without its weight
LobjAddedUnweighted(lobj, obji, w) == RAdd(lobj, obji)

\* lobj += obji * self.balance[i]
LobjAdded(lobj, obji, w) == RAdd(lobj, RMul(obji, w))

\* bbox_iou(pbox, tbox[i], CIoU=True) of entry n: a value in [-1/4, 1] fixed
\* by the prediction gathered at indices[n] and by the target box
Iou(rec, n) ==
    LET ix == rec.indices[n]
        tb == rec.tbox[n]
    IN  Rat(((ix[2] + ix[3] + 2 * ix[4] + tb[1] + tb[2] + tb[3]) % 6) - 1, 4)

\* (1.0 - iou).mean() over the entries of the layer
BoxLoss(rec) ==
    LET n == Len(rec.indices)
    IN  RDiv(RSum([e \in 1 .. n |-> RAdd(<<1, 1>>, RMul(<<-1, 1>>, Iou(rec, e)))]), <<n, 1>>)

\* variant: the IoU is scattered as computed, without the clamp
IouNotClamped(rec, n) == Iou(rec, n)

\* iou = tf.maximum(iou, 0)
ClampedIou(rec, n) == IF RLess(Iou(rec, n), RZero) THEN RZero ELSE Iou(rec, n)

\* the cells of tobj = tf.zeros(pi.shape[:4]): [b, na, gy, gx]
Cells(shape) ==
    {<<b, a, r, c>> : b \in 0 .. (bs - 1), a \in 0 .. (na - 1),
                      r \in 0 .. (shape[1] - 1), c \in 0 .. (shape[2] - 1)}

\* tf.tensor_scatter_nd_update(tobj, index, iou): a cell named by several
\* rows of index receives the update of one of them, the order of the
\* updates being unspecified; every other cell keeps 0
RECURSIVE ScatterChoices(_, _)
ScatterChoices(rec, cells) ==
    IF cells = {} THEN {<<>>}
    ELSE LET c    == CHOOSE x \in cells : TRUE
             vals == {ClampedIou(rec, n) : n \in {m \in 1 .. Len(rec.indices) : rec.indices[m] = c}}
         IN  {(c :> v) @@ f : v \in vals, f \in ScatterChoices(rec, cells \ {c})}

ScatterOutcomes(rec, shape) ==
    {[c \in Cells(shape) |-> IF c \in DOMAIN f THEN f[c] ELSE RZero] :
        f \in ScatterChoices(rec, Range(rec.indices))}

\* self.BCEcls(one_hot(tcls[i]), pcls): mean over entries and classes of a
\* positive per-element loss
ClsLoss(rec) ==
    LET n == Len(rec.indices)
    IN  Rat(n * nc + Len(SelectSeq(rec.tcls, LAMBDA c : c # 0)), n * nc)

\* tf.unique(b)[0]: the image indices of the entries, by first appearance
RECURSIVE Unique(_)
Unique(s) ==
    IF s = <<>> THEN <<>>
    ELSE LET r == Unique(SubSeq(s, 1, Len(s) - 1))
         IN  IF s[Len(s)] \in Range(r) THEN r ELSE Append(r, s[Len(s)])

\* variant: every entry of the layer, whatever its image
SelAll(rec, bi) == 1 .. Len(rec.indices)

\* j = b == bi: the positions of the entries whose image index is bi
SelImage(rec, bi) == {n \in 1 .. Len(rec.indices) : rec.indices[n][1] = bi}

\* variant: a pixel belongs to the mask when its value is at least the index
mask_gtiAtLeast(mk, bi, tidx, overlap) ==
    IF overlap THEN [px \in 1 .. GtPixels |-> IF mk[bi][px] >= tidx THEN 1 ELSE 0]
    ELSE mk[tidx]

\* the ground-truth mask of one entry: tf.where(masks[bi] == tidx, 1.0, 0.0)
\* in overlap mode, masks[tidx] otherwise
mask_gti(mk, bi, tidx, overlap) ==
    IF overlap THEN [px \in 1 .. GtPixels |-> IF mk[bi][px] = tidx THEN 1 ELSE 0]
    ELSE mk[tidx]

\* the arguments of one call of single_mask_loss at layer i for image bi:
\* masks[bi] == tidxs[i][j] (overlap) or masks[tidxs[i]][j] (no overlap),
\* pmask[j], proto[bi], mxyxy[j], marea[j]
MaskCallArgs(i, rec, bi, overlap, mk) ==
    LET j == SelImage(rec, bi)
    IN  [layer |-> i, bi |-> bi, j |-> j, proto |-> bi,
         gt    |-> [n \in j |-> mask_gti(mk, bi, rec.tidxs[n], overlap)],
         mask  |-> IF overlap THEN [n \in j |-> <<bi, rec.tidxs[n]>>]
                   ELSE [n \in j |-> <<"instance", rec.tidxs[n]>>],
         area  |-> [n \in j |-> <<rec.xywhn[n][3] * rec.xywhn[n][4], XD * XD>>]]

\* single_mask_loss: mean over the instances of (mean pixel loss / area);
\* the mean pixel loss of an instance is a positive value fixed by its
\* prototype, mask and coefficients
RECURSIVE SumOver(_, _)
SumOver(f, S) ==
    IF S = {} THEN RZero
    ELSE LET x == CHOOSE y \in S : TRUE IN RAdd(f[x], SumOver(f, S \ {x}))

single_mask_loss(args) ==
    LET per == [n \in args.j |-> RDiv(<<1 + args.proto + args.mask[n][2], 4>>, args.area[n])]
    IN  RDiv(SumOver(per, args.j), <<Cardinality(args.j), 1>>)

\* self.BCEobj(tobj, pi[..., 4]): mean over every cell of the layer of a
\* per-cell loss that is positive and decreases with the target
ObjLoss(tobj) ==
    LET cs  == DOMAIN tobj
        pos == {c \in cs : tobj[c] # RZero}
        \* the sum over every cell of 2 - tobj[c]: a cell with target 0 adds 2
        sum == RSub(<<2 * Cardinality(cs), 1>>, SumOver([c \in pos |-> tobj[c]], pos))
    IN  RDiv(sum, <<Cardinality(cs), 1>>)

\* ------------------------------------------ utils/tf_general.py: geometry
\* An array is a sequence of rows of exact rationals; an image shape is
\* <<height, width>>.
GMax == 4        \* largest coordinate of an input box or segment point

\* variant: the width and height are not halved
xywh2xyxyNotHalved(x) ==
    [r \in 1 .. Len(x) |->
        <<RSub(x[r][1], x[r][3]), RSub(x[r][2], x[r][4]),
          RAdd(x[r][1], x[r][3]), RAdd(x[r][2], x[r][4])>>]

\* [x, y, w, h] -> [x1, y1, x2, y2]
xywh2xyxy(x) ==
    [r \in 1 .. Len(x) |->
        <<RSub(x[r][1], RDiv(x[r][3], <<2, 1>>)), RSub(x[r][2], RDiv(x[r][4], <<2, 1>>)),
          RAdd(x[r][1], RDiv(x[r][3], <<2, 1>>)), RAdd(x[r][2], RDiv(x[r][4], <<2, 1>>))>>]

\* [x1, y1, x2, y2] -> [x, y, w, h]
xyxy2xywh(x) ==
    [r \in 1 .. Len(x) |->
        <<RDiv(RAdd(x[r][1], x[r][3]), <<2, 1>>), RDiv(RAdd(x[r][2], x[r][4]), <<2, 1>>),
          RSub(x[r][3], x[r][1]), RSub(x[r][4], x[r][2])>>]

\* gain = min(img1_shape[0] / img0_shape[0], img1_shape[1] / img0_shape[1]),
\* or ratio_pad[0][0]
ScaleGain(img1_shape, img0_shape, ratio_pad) ==
    IF ratio_pad.none
    THEN RMin(Rat(img1_shape[1], img0_shape[1]), Rat(img1_shape[2], img0_shape[2]))
    ELSE ratio_pad.val[1][1]

\* pad = (img1_shape[1] - img0_shape[1] * gain) / 2,
\*       (img1_shape[0] - img0_shape[0] * gain) / 2, or ratio_pad[1]
ScalePad(img1_shape, img0_shape, ratio_pad) ==
    LET gain == ScaleGain(img1_shape, img0_shape, ratio_pad)
    IN  IF ratio_pad.none
        THEN <<RDiv(RSub(<<img1_shape[2], 1>>, RMul(<<img0_shape[2], 1>>, gain)), <<2, 1>>),
               RDiv(RSub(<<img1_shape[1], 1>>, RMul(<<img0_shape[1], 1>>, gain)), <<2, 1>>)>>
        ELSE ratio_pad.val[2]

\* variant: the rescaled coordinates are returned without the clip
scale_boxesNotClipped(img1_shape, boxes, img0_shape, ratio_pad) ==
    LET gain == ScaleGain(img1_shape, img0_shape, ratio_pad)
        pad  == ScalePad(img1_shape, img0_shape, ratio_pad)
    IN  [r \in 1 .. Len(boxes) |->
            <<RDiv(RSub(boxes[r][1], pad[1]), gain), RDiv(RSub(boxes[r][2], pad[2]), gain),
              RDiv(RSub(boxes[r][3], pad[1]), gain), RDiv(RSub(boxes[r][4], pad[2]), gain)>>]

\* b0..b3 = tf.clip_by_value((boxes[:, c] - pad) / gain, 0, img0_shape[1 or 0])
scale_boxes(img1_shape, boxes, img0_shape, ratio_pad) ==
    LET gain == ScaleGain(img1_shape, img0_shape, ratio_pad)
        pad  == ScalePad(img1_shape, img0_shape, ratio_pad)
        W    == <<img0_shape[2], 1>>
        H    == <<img0_shape[1], 1>>
    IN  [r \in 1 .. Len(boxes) |->
            <<RClip(RDiv(RSub(boxes[r][1], pad[1]), gain), RZero, W),
              RClip(RDiv(RSub(boxes[r][2], pad[2]), gain), RZero, H),
              RClip(RDiv(RSub(boxes[r][3], pad[1]), gain), RZero, W),
              RClip(RDiv(RSub(boxes[r][4], pad[2]), gain), RZero, H)>>]

\* clip_boxes: b0..b3 are the clipped columns boxes[:, c], each of shape [n],
\* and tf.concat([b0, b1, b2, b3], axis=-1) lays them end to end
clip_boxes(boxes, shape) ==
    LET W == <<shape[2], 1>>
        H == <<shape[1], 1>>
        n == Len(boxes)
    IN  [r \in 1 .. n |-> RClip(boxes[r][1], RZero, W)] \o
        [r \in 1 .. n |-> RClip(boxes[r][2], RZero, H)] \o
        [r \in 1 .. n |-> RClip(boxes[r][3], RZero, W)] \o
        [r \in 1 .. n |-> RClip(boxes[r][4], RZero, H)]

\* clip_segments on an np.array: the value of the array after the in-place
\* assignments segments[:, 0] = segments[:, 0].clip(0, shape[1]) and
\* segments[:, 1] = segments[:, 1].clip(0, shape[0])
ClippedSegments(segments, shape) ==
    [r \in 1 .. Len(segments) |->
        <<RClip(segments[r][1], RZero, <<shape[2], 1>>),
          RClip(segments[r][2], RZero, <<shape[1], 1>>)>>]

\* scale_segments on an np.array: the value of the array after
\* segments[:, 0] -= pad[0]; segments[:, 1] -= pad[1]; segments /= gain;
\* clip_segments(segments, img0_shape); and, if normalize, the divisions by
\* the width and the height
ScaledSegments(img1_shape, segments, img0_shape, ratio_pad, normalize) ==
    LET gain   == ScaleGain(img1_shape, img0_shape, ratio_pad)
        pad    == ScalePad(img1_shape, img0_shape, ratio_pad)
        moved  == [r \in 1 .. Len(segments) |->
                      <<RDiv(RSub(segments[r][1], pad[1]), gain),
                        RDiv(RSub(segments[r][2], pad[2]), gain)>>]
        clipped == ClippedSegments(moved, img0_shape)
    IN  IF normalize
        THEN [r \in 1 .. Len(clipped) |->
                 <<RDiv(clipped[r][1], <<img0_shape[2], 1>>), RDiv(clipped[r][2], <<img0_shape[1], 1>>)>>]
        ELSE clipped

\* input boxes (as corners or as center and size) and segment points
BoxRows ==
    {<<<<a, 1>>, <<b, 1>>, <<c, 1>>, <<d, 1>>>> :
        a \in -1 .. GMax, c \in -1 .. GMax, b \in {-1, 1, GMax}, d \in {0, 3, GMax}}

BoxArrays == {<<b>> : b \in BoxRows} \cup {<<b, b>> : b \in {x \in BoxRows : x[1] = x[2]}}

SegRows == {<<<<a, 1>>, <<b, 1>>>> : a \in -1 .. GMax, b \in -1 .. GMax}

SegArrays == {<<q>> : q \in SegRows}

ImgShapes1 == {<<4, 4>>, <<4, 2>>}

ImgShapes0 == {<<2, 2>>, <<2, 4>>}

\* ratio_pad: None or [[h / h0, w / w0], [pad, pad]]
RatioPads ==
    {[none |-> TRUE, val |-> <<>>],
     [none |-> FALSE, val |-> <<<<<<2, 1>>, <<2, 1>>>>, <<<<0, 1>>, <<1, 1>>>>>>],
     [none |-> FALSE, val |-> <<<<<<1, 2>>, <<1, 2>>>>, <<<<1, 2>>, <<0, 1>>>>>>]}

\* ------------------------------------------- single_mask_loss in detail
nm == 2          \* number of mask coefficients (and of prototype channels)
MaskPixels == 2  \* pixels of a prototype channel, flattened
MaxScale == 3    \* largest factor the coefficients are multiplied by

\* variant: coefficients and prototypes are added instead of multiplied
pred_maskAdded(pmask, proto) ==
    [n \in 1 .. Len(pmask) |->
        [px \in 1 .. Len(proto[1]) |->
            RSum([m \in 1 .. Len(proto) |-> RAdd(pmask[n][m], proto[m][px])])]]

\* pred_mask = pmask @ tf.reshape(proto, (self.nm, -1)): [nti, nm] @ [nm, h*w]
pred_mask(pmask, proto) ==
    [n \in 1 .. Len(pmask) |->
        [px \in 1 .. Len(proto[1]) |->
            RSum([m \in 1 .. Len(proto) |-> RMul(pmask[n][m], proto[m][px])])]]

\* crop_mask(loss, xyxy): the loss of a pixel outside the box is zeroed
crop_mask(loss, xyxy) ==
    [n \in 1 .. Len(loss) |->
        [px \in 1 .. Len(loss[n]) |->
            IF xyxy[n][1] <= px - 1 /\ px - 1 < xyxy[n][2] THEN loss[n][px]
            ELSE [in |-> FALSE, gt |-> 0, logit |-> RZero]]]

\* single_mask_loss down to the pixel terms: the binary cross-entropy of a
\* pixel is fixed by its ground-truth value and its predicted logit; the
\* loss is the mean over the instances of (mean over the pixels of the
\* cropped terms) / area
MaskLossTerms(gt_mask, pmask, proto, xyxy, area) ==
    LET pred == pred_mask(pmask, proto)
        loss == [n \in 1 .. Len(pmask) |->
                    [px \in 1 .. Len(pred[n]) |->
                        [in |-> TRUE, gt |-> gt_mask[n][px], logit |-> pred[n][px]]]]
        crop == crop_mask(loss, xyxy)
    IN  [n \in 1 .. Len(pmask) |-> [pixels |-> crop[n], area |-> area[n]]]

\* every element of the matrix x multiplied by the rational k
Scaled(x, k) == [r \in 1 .. Len(x) |-> [c \in 1 .. Len(x[r]) |-> RMul(x[r][c], k)]]

CoefValues == {<<-1, 1>>, <<0, 1>>, <<2, 1>>}

ProtoValues == {<<-1, 1>>, <<2, 1>>}

\* pmask of one or two instances, proto of nm channels
MaskCoefs ==
    {<<c>> : c \in [1 .. nm -> CoefValues]} \cup
    {<<c, [m \in 1 .. nm |-> <<m, 1>>]>> : c \in [1 .. nm -> CoefValues]}

MaskProtos == [1 .. nm -> [1 .. MaskPixels -> ProtoValues]]

\* the non-zero factors k
MaskScales == {<<k, 1>> : k \in (-MaxScale .. MaxScale) \ {0, 1}} \cup {<<1, 2>>}

\* ground-truth masks, boxes and areas of the instances of an image
MaskGt == <<[px \in 1 .. MaskPixels |-> px % 2], [px \in 1 .. MaskPixels |-> 1]>>

MaskBoxes == <<<<0, MaskPixels>>, <<1, MaskPixels>>>>

MaskAreas == <<<<1, 2>>, <<1, 4>>>>

\* ------------------------------------ utils/tf_general.py: increment_path
\* A path is [stem, num, suffix, tail], standing for the string made of the
\* stem, the decimal digits of num, the suffix and the decimal digits of
\* tail (a num or tail of 0: no digits).  A file system is [files, dirs],
\* the paths that exist as a file and as a directory.
IncrementStop == 9999    \* for n in range(2, 9999)
MaxPathCalls == 2        \* number of increment_path calls made in a row

Path(stem, num, suffix) == [stem |-> stem, num |-> num, suffix |-> suffix, tail |-> 0]

\* 10 to the number of decimal digits of n
RECURSIVE Shift(_)
Shift(n) == IF n < 10 THEN 10 ELSE 10 * Shift(n \div 10)

\* f'{d}{n}': the digits d followed by the digits of n
Digits(d, n) == IF d = 0 THEN n ELSE d * Shift(n) + n

\* path.exists(), os.path.exists(p)
PathExists(fs, path) == path \in fs.files \/ path \in fs.dirs

\* path.is_file()
is_file(fs, path) == path \in fs.files

\* p = f'{path}{sep}{n}{suffix}' with sep = '' and (path, suffix) =
\* (path.with_suffix(''), path.suffix) if path.is_file() else (path, ''):
\* the number goes before the suffix of a file and at the end of any other path
Candidate(fs, path, n) ==
    IF is_file(fs, path) \/ path.suffix = ""
    THEN [path EXCEPT !.num = Digits(path.num, n)]
    ELSE [path EXCEPT !.tail = Digits(path.tail, n)]

\* the n the loop `for n in range(2, 9999)` ends with: the first n whose p
\* does not exist (break), or the last n of the range
LoopEnd(fs, path) ==
    IF \A n \in 2 .. (IncrementStop - 1) : PathExists(fs, Candidate(fs, path, n))
    THEN IncrementStop - 1
    ELSE CHOOSE n \in 2 .. (IncrementStop - 1) :
            /\ ~ PathExists(fs, Candidate(fs, path, n))
            /\ \A m \in 2 .. (n - 1) : PathExists(fs, Candidate(fs, path, m))

\* path after `if path.exists() and not exist_ok: ...`
Incremented(fs, path, exist_ok) ==
    IF PathExists(fs, path) /\ ~ exist_ok THEN Candidate(fs, path, LoopEnd(fs, path)) ELSE path

\* the paths handed to increment_path
InPaths == {Path("exp", 0, ""), Path("exp", 2, ""), Path("a", 0, ".txt")}

\* the file systems a first call finds: nothing, the path alone, the path
\* with numbered siblings, with a gap, and a directory with every number up
\* to the last but one of the range taken
FsStates ==
    {[files |-> {}, dirs |-> {}],
     [files |-> {}, dirs |-> {Path("exp", 0, "")}],
     [files |-> {}, dirs |-> {Path("exp", 0, ""), Path("exp", 2, "")}],
     [files |-> {}, dirs |-> {Path("exp", 0, ""), Path("exp", 3, "")}],
     [files |-> {}, dirs |-> {Path("exp", 2, "")}],
     [files |-> {Path("a", 0, ".txt")}, dirs |-> {}],
     [files |-> {Path("a", 0, ".txt"), Path("a", 2, ".txt")}, dirs |-> {Path("exp", 0, "")}],
     [files |-> {Path("a", 0, ".txt")}, dirs |-> {Path("a", 2, ".txt")}],
     [files |-> {},
      dirs |-> {Path("exp", 0, "")} \cup {Path("exp", n, "") : n \in 2 .. (IncrementStop - 2)}]}

\* ------------------------------------- class targets and label smoothing
MaxEntries == 2  \* most entries of a layer in a class-loss evaluation

\* smooth_BCE(eps): the positive and the negative smoothed target
smooth_BCE(eps) == <<RSub(<<1, 1>>, RMul(<<1, 2>>, eps)), RMul(<<1, 2>>, eps)>>

\* variant: the targets are cn everywhere and cp at the class of the entry
ClassTargetsSmoothed(tcls, depth, cp, cn) ==
    [n \in 1 .. Len(tcls) |-> [c \in 0 .. (depth - 1) |-> IF c = tcls[n] THEN cp ELSE cn]]

\* t = tf.one_hot(indices=tcls[i], depth=pcls.shape[1]) in an object whose
\* fields self.cp, self.cn are cp, cn
ClassTargets(tcls, depth, cp, cn) ==
    [n \in 1 .. Len(tcls) |-> [c \in 0 .. (depth - 1) |-> IF c = tcls[n] THEN <<1, 1>> ELSE RZero]]

\* self.BCEcls(t, pcls) down to its terms: the binary cross-entropy of an
\* element is fixed by its target and its logit, the loss is their mean
ClsLossTerms(tcls, pcls, label_smoothing) ==
    LET cpn == smooth_BCE(label_smoothing)
        t   == ClassTargets(tcls, nc, cpn[1], cpn[2])
    IN  [n \in 1 .. Len(tcls) |->
            [c \in 0 .. (nc - 1) |-> [target |-> t[n][c], logit |-> pcls[n][c]]]]

\* label_smoothing values other than the default 0.0
LabelSmoothings == {<<1, 10>>, <<1, 2>>, <<1, 1>>}

\* tcls[i] of a layer with matches
ClassLists == UNION {[1 .. n -> 0 .. (nc - 1)] : n \in 1 .. MaxEntries}

\* pcls: the predicted class logits gathered for the entries, three patterns
ClassLogits(n) ==
    {[e \in 1 .. n |-> [c \in 0 .. (nc - 1) |-> <<((e + c + q) % 3) - 1, 1>>]] : q \in 0 .. 2}

\* ------------------------------------------------------------------ inputs
Tgt(img, cls, x, y, w, h) == [img |-> img, cls |-> cls, x |-> x, y |-> y, w |-> w, h |-> h]

\* single instances at every center position, with two box sizes
GeomSizes == {<<1, 1>>, <<2, 2>>}

GeomTargets ==
    {Tgt(img, 0, x, y, s[1], s[2]) : img \in 0 .. (bs - 1), x \in 0 .. XD, y \in 0 .. XD, s \in GeomSizes}

\* single instances of every box size, at two center positions
SizePositions == {<<1, 3>>, <<XD \div 2, XD \div 2>>}

SizeTargets ==
    {Tgt(img, 0, q[1], q[2], w, h) : img \in 0 .. (bs - 1), q \in SizePositions,
                                     w \in 0 .. WMaxD, h \in 0 .. WMaxD}

\* instances that make up the longer lists: (cls, x, y, w, h)
CoarseBoxes == {<<0, 1, 3, 1, 1>>, <<1, 1, 5, 1, 1>>}

CoarseTargets == {Tgt(img, c[1], c[2], c[3], c[4], c[5]) : img \in 0 .. (bs - 1), c \in CoarseBoxes}

\* lists with an instance of zero width or height next to a regular one
ZeroAreaLists ==
    {<<Tgt(0, 0, 1, 3, 0, 1), Tgt(0, 0, 1, 3, 1, 1)>>,
     <<Tgt(0, 0, 1, 3, 1, 0), Tgt(1, 1, 1, 5, 1, 1)>>}

\* the ground-truth instance lists of a first call
TargetLists ==
    {<<>>} \cup {<<t>> : t \in GeomTargets \cup SizeTargets}
           \cup UNION {[1 .. n -> CoarseTargets] : n \in 2 .. MaxNt}
           \cup ZeroAreaLists

\* the lists of a later call, besides the list of the first completed call
LaterLists == {<<>>}

\* len(p), the number of per-layer prediction tensors handed to a call: the
\* configured count, one less or one more
PredLayerCounts == {nl - 1, nl, nl + 1}

\* the lists handed over together with a layer count other than nl
MismatchLists == {<<>>, <<Tgt(0, 0, 1, 3, 1, 1)>>, <<Tgt(0, 0, 1, 3, 1, 1), Tgt(1, 1, 1, 5, 1, 1)>>}

\* masks in overlap mode: one coarse mask per image, a pixel holding 0
\* (background) or the 1-based running index of an instance of the image
CoarseMasks ==
    <<[px \in 1 .. GtPixels |-> px - 1], [px \in 1 .. GtPixels |-> IF px = 1 THEN 2 ELSE 1]>>

\* the images take the two coarse masks in turn, starting with either
OverlapMasks == {[b \in 0 .. (bs - 1) |-> CoarseMasks[((b + s) % 2) + 1]] : s \in 0 .. 1}

\* masks in no-overlap mode: one binary mask per listed instance
InstanceMasks(nt) == [k \in 0 .. (nt - 1) |-> [px \in 1 .. GtPixels |-> IF px <= k + 1 THEN 1 ELSE 0]]

\* the masks a list comes with when nothing else is chosen
DefaultMasks(tg, overlap) ==
    IF overlap THEN [b \in 0 .. (bs - 1) |-> [px \in 1 .. GtPixels |-> px - 1]]
    ELSE InstanceMasks(Len(tg))

\* ------------------------------------------------------ the ComputeLoss object
VARIABLES
    cfg,       \* overlap, autobalance, grids: fixed at construction
    balance,   \* self.balance
    pc,        \* "idle", "layers", "done" or "error"
    targets,   \* the ground-truth list of the current call
    bt,        \* tcls, tbox, indices, anchors, tidxs, xywhn of every layer
    li,        \* index of the next layer of the loop over p
    acc,       \* lbox, lobj, lcls, lseg
    tobjs,     \* tobj of every layer processed in this call
    segCalls,  \* arguments of the single_mask_loss calls of this call
    phases,    \* phases this call has gone through
    result,    \* (loss * bs, (lbox, lseg, lobj, lcls)) of the last return
    first,     \* inputs and result of the first call that returned
    ncalls,    \* calls made so far
    npl,       \* len(p) of the current call
    masks,     \* the ground-truth masks of the current call
    cinp,      \* class loss: tcls, pcls and the label_smoothing of the second object
    cres,      \* the class losses of the object with label_smoothing 0 and of the second
    fsys,      \* increment_path: the file system
    pbefore,   \* the file system as the last call found it
    phist,     \* the calls made: arguments and outcome
    gparm,     \* geometry utilities: the arguments of the call besides the array
    garg,      \* the array handed to the call, as the caller holds it afterwards
    gret,      \* what the last geometry call returned
    gtrace,    \* the geometry functions applied so far
    minp,      \* single_mask_loss: pmask, proto and the factor k
    mres       \* the losses computed from minp, plain and rescaled

lossvars == <<cfg, balance, pc, targets, bt, li, acc, tobjs, segCalls, phases, result, first, ncalls, npl, masks>>

geomvars == <<gparm, garg, gret, gtrace>>

maskvars == <<minp, mres>>

clsvars == <<cinp, cres>>

pathvars == <<fsys, pbefore, phist>>

vars == <<lossvars, geomvars, maskvars, clsvars, pathvars>>

NoBt == [i \in Layers |-> LayerTargets(i, <<>>, TRUE, bs, <<1, 1>>)]

\* lcls = lbox = lobj = lseg = tf.zeros([1])
ZeroAcc(old) == [lbox |-> RZero, lobj |-> RZero, lcls |-> RZero, lseg |-> RZero]

\* the fields of a ComputeLoss object before its first call
LossIdle ==
    /\ balance = InitBalance
    /\ pc = "idle"
    /\ targets = <<>>
    /\ bt = NoBt
    /\ li = 0
    /\ acc = ZeroAcc(<<>>)
    /\ tobjs = <<>>
    /\ segCalls = <<>>
    /\ phases = <<>>
    /\ result = <<>>
    /\ first = <<>>
    /\ ncalls = 0
    /\ npl = nl
    /\ masks = <<>>

\* no geometry call is in progress
GeomIdle ==
    /\ gparm = [img1 |-> <<4, 4>>, img0 |-> <<2, 2>>, ratio_pad |-> [none |-> TRUE, val |-> <<>>],
                normalize |-> FALSE, kind |-> "tensor", array |-> <<>>]
    /\ garg = <<>>
    /\ gret = [kind |-> "nothing", val |-> <<>>]
    /\ gtrace = <<>>

NoMaskLoss == [done |-> FALSE, val |-> <<>>]

\* no mask loss has been computed
MaskIdle ==
    /\ minp = [pmask |-> <<>>, proto |-> <<>>, k |-> <<1, 1>>]
    /\ mres = [plain |-> NoMaskLoss, scaled |-> NoMaskLoss]

\* no class loss has been computed
ClsIdle ==
    /\ cinp = [tcls |-> <<>>, pcls |-> <<>>, eps |-> RZero]
    /\ cres = [plain |-> NoMaskLoss, smoothed |-> NoMaskLoss]

\* no increment_path call has been made
PathIdle ==
    /\ fsys = [files |-> {}, dirs |-> {}]
    /\ pbefore = [files |-> {}, dirs |-> {}]
    /\ phist = <<>>

\* the ComputeLoss object after construction with configuration c
Constructed(c) ==
    /\ cfg = c
    /\ LossIdle

Init ==
    /\ \E c \in [overlap : BOOLEAN, autobalance : BOOLEAN, base : BaseShapes] : Constructed(c)
    /\ GeomIdle
    /\ MaskIdle
    /\ ClsIdle
    /\ PathIdle

\* ------------------------------------------------ geometry: the call steps
GeomInit ==
    /\ Constructed([overlap |-> FALSE, autobalance |-> FALSE, base |-> <<1, 1>>])
    /\ MaskIdle
    /\ ClsIdle
    /\ PathIdle
    /\ \E i1 \in ImgShapes1, i0 \in ImgShapes0, rp \in RatioPads :
          \/ \E arr \in BoxArrays :
                /\ gparm = [img1 |-> i1, img0 |-> i0, ratio_pad |-> rp, normalize |-> FALSE,
                            kind |-> "tensor", array |-> arr]
                /\ garg = arr
                /\ i1 = <<4, 4>>
          \/ \E arr \in SegArrays, nz \in BOOLEAN, kd \in {"tensor", "ndarray"} :
                /\ gparm = [img1 |-> i1, img0 |-> i0, ratio_pad |-> rp, normalize |-> nz,
                            kind |-> kd, array |-> arr]
                /\ garg = arr
    /\ gret = [kind |-> "nothing", val |-> <<>>]
    /\ gtrace = <<>>

IsBoxes(arr) == Len(arr) > 0 /\ Len(arr[1]) = 4

IsSegments(arr) == Len(arr) > 0 /\ Len(arr[1]) = 2

\* the array a conversion is applied to: the input, or the result of the
\* conversion before it
Operand == IF gtrace = <<>> THEN garg ELSE gret.val

CallXyxy2xywh ==
    /\ IsBoxes(gparm.array)
    /\ gtrace \in {<<>>, <<"xywh2xyxy">>}
    /\ gret' = [kind |-> "array", val |-> xyxy2xywh(Operand)]
    /\ gtrace' = Append(gtrace, "xyxy2xywh")
    /\ UNCHANGED <<gparm, garg, lossvars, maskvars, clsvars, pathvars>>

CallXywh2xyxy ==
    /\ IsBoxes(gparm.array)
    /\ gtrace \in {<<>>, <<"xyxy2xywh">>}
    /\ gret' = [kind |-> "array", val |-> xywh2xyxy(Operand)]
    /\ gtrace' = Append(gtrace, "xywh2xyxy")
    /\ UNCHANGED <<gparm, garg, lossvars, maskvars, clsvars, pathvars>>

CallScaleBoxes ==
    /\ IsBoxes(gparm.array)
    /\ gtrace = <<>>
    /\ gret' = [kind |-> "array", val |-> scale_boxes(gparm.img1, garg, gparm.img0, gparm.ratio_pad)]
    /\ gtrace' = <<"scale_boxes">>
    /\ UNCHANGED <<gparm, garg, lossvars, maskvars, clsvars, pathvars>>

CallClipBoxes ==
    /\ IsBoxes(gparm.array)
    /\ gtrace = <<>>
    /\ gret' = [kind |-> "array", val |-> clip_boxes(garg, gparm.img0)]
    /\ gtrace' = <<"clip_boxes">>
    /\ UNCHANGED <<gparm, garg, lossvars, maskvars, clsvars, pathvars>>

\* clip_segments: on a tf.Tensor, segments[:, 0].clamp_ raises AttributeError;
\* on an np.array the columns are assigned in place and nothing is returned
CallClipSegments ==
    /\ IsSegments(gparm.array)
    /\ gtrace = <<>>
    /\ IF gparm.kind = "tensor"
       THEN /\ gret' = [kind |-> "error", val |-> <<>>]
            /\ garg' = garg
       ELSE /\ gret' = [kind |-> "None", val |-> <<>>]
            /\ garg' = ClippedSegments(garg, gparm.img0)
    /\ gtrace' = <<"clip_segments">>
    /\ UNCHANGED <<gparm, lossvars, maskvars, clsvars, pathvars>>

\* scale_segments: on a tf.Tensor, segments[:, 0] -= pad[0] raises TypeError
\* (no item assignment); on an np.array the array is updated in place and
\* returned
CallScaleSegments ==
    /\ IsSegments(gparm.array)
    /\ gtrace = <<>>
    /\ IF gparm.kind = "tensor"
       THEN /\ gret' = [kind |-> "error", val |-> <<>>]
            /\ garg' = garg
       ELSE LET out == ScaledSegments(gparm.img1, garg, gparm.img0, gparm.ratio_pad, gparm.normalize)
            IN  /\ gret' = [kind |-> "array", val |-> out]
                /\ garg' = out
    /\ gtrace' = <<"scale_segments">>
    /\ UNCHANGED <<gparm, lossvars, maskvars, clsvars, pathvars>>

GeomNext ==
    \/ CallXyxy2xywh
    \/ CallXywh2xyxy
    \/ CallScaleBoxes
    \/ CallClipBoxes
    \/ CallClipSegments
    \/ CallScaleSegments

GeomSpec == GeomInit /\ [][GeomNext]_vars

\* ------------------------------------------- mask loss: the two evaluations
MaskInit ==
    /\ Constructed([overlap |-> FALSE, autobalance |-> FALSE, base |-> <<1, 1>>])
    /\ GeomIdle
    /\ ClsIdle
    /\ PathIdle
    /\ \E c \in MaskCoefs, q \in MaskProtos, k \in MaskScales :
          minp = [pmask |-> c, proto |-> q, k |-> k]
    /\ mres = [plain |-> NoMaskLoss, scaled |-> NoMaskLoss]

\* single_mask_loss(mask_gti, pmask[j], proto[bi], mxyxy[j], marea[j])
MaskLossPlain ==
    /\ ~ mres.plain.done
    /\ mres' = [mres EXCEPT !.plain =
                   [done |-> TRUE,
                    val |-> MaskLossTerms(MaskGt, minp.pmask, minp.proto, MaskBoxes, MaskAreas)]]
    /\ UNCHANGED <<minp, lossvars, geomvars, clsvars, pathvars>>

\* the same call with the coefficients times k and the prototype divided by k
MaskLossRescaled ==
    /\ ~ mres.scaled.done
    /\ mres' = [mres EXCEPT !.scaled =
                   [done |-> TRUE,
                    val |-> MaskLossTerms(MaskGt, Scaled(minp.pmask, minp.k),
                                          Scaled(minp.proto, RDiv(<<1, 1>>, minp.k)),
                                          MaskBoxes, MaskAreas)]]
    /\ UNCHANGED <<minp, lossvars, geomvars, clsvars, pathvars>>

MaskNext ==
    \/ MaskLossPlain
    \/ MaskLossRescaled

MaskSpec == MaskInit /\ [][MaskNext]_vars

\* ------------------------------ class loss: the two objects' evaluations
ClsInit ==
    /\ Constructed([overlap |-> FALSE, autobalance |-> FALSE, base |-> <<1, 1>>])
    /\ GeomIdle
    /\ MaskIdle
    /\ PathIdle
    /\ \E t \in ClassLists, e \in LabelSmoothings :
          \E q \in ClassLogits(Len(t)) : cinp = [tcls |-> t, pcls |-> q, eps |-> e]
    /\ cres = [plain |-> NoMaskLoss, smoothed |-> NoMaskLoss]

\* step 4.5 in an object built with label_smoothing = 0.0
ClsLossPlain ==
    /\ ~ cres.plain.done
    /\ cres' = [cres EXCEPT !.plain =
                   [done |-> TRUE, val |-> ClsLossTerms(cinp.tcls, cinp.pcls, RZero)]]
    /\ UNCHANGED <<cinp, lossvars, geomvars, maskvars, pathvars>>

\* step 4.5 in an object that differs in label_smoothing only
ClsLossSmoothed ==
    /\ ~ cres.smoothed.done
    /\ cres' = [cres EXCEPT !.smoothed =
                   [done |-> TRUE, val |-> ClsLossTerms(cinp.tcls, cinp.pcls, cinp.eps)]]
    /\ UNCHANGED <<cinp, lossvars, geomvars, maskvars, pathvars>>

ClsNext ==
    \/ ClsLossPlain
    \/ ClsLossSmoothed

ClsSpec == ClsInit /\ [][ClsNext]_vars

\* ------------------------------------------ increment_path: the call
PathInit ==
    /\ Constructed([overlap |-> FALSE, autobalance |-> FALSE, base |-> <<1, 1>>])
    /\ GeomIdle
    /\ MaskIdle
    /\ ClsIdle
    /\ fsys \in FsStates
    /\ pbefore = fsys
    /\ phist = <<>>

\* increment_path(path, exist_ok, sep='', mkdir): the path is incremented,
\* then path.mkdir(parents=True, exist_ok=True) makes the directory, which
\* raises FileExistsError when the path is a file, and the path is returned
CallIncrementPath(path, exist_ok, mkdir) ==
    /\ Len(phist) < MaxPathCalls
    /\ LET q       == Incremented(fsys, path, exist_ok)
           raised  == mkdir /\ is_file(fsys, q)
       IN  /\ fsys' = IF mkdir /\ ~ raised
                       THEN [fsys EXCEPT !.dirs = IF q \in @ THEN @ ELSE @ \cup {q}]
                       ELSE fsys
           /\ phist' = Append(phist, [path |-> path, exist_ok |-> exist_ok, mkdir |-> mkdir,
                                       raised |-> raised, ret |-> q])
    /\ pbefore' = fsys
    /\ UNCHANGED <<lossvars, geomvars, maskvars, clsvars>>

PathNext == \E path \in InPaths, exist_ok \in BOOLEAN, mkdir \in BOOLEAN : CallIncrementPath(path, exist_ok, mkdir)

PathSpec == PathInit /\ [][PathNext]_vars

\* --------------------------------------------- the loss call: its steps
\* __call__, steps 1-3: unpack, zero the accumulators, build the targets
Call(tg, np, mk) ==
    /\ pc \in {"idle", "done", "error"}
    /\ ncalls < MaxCalls
    /\ ncalls' = ncalls + 1
    /\ targets' = tg
    /\ npl' = np
    /\ masks' = mk
    /\ acc' = ZeroAcc(acc)
    /\ bt' = build_targets(tg, cfg.overlap, bs, grids(cfg.base))
    /\ li' = 0
    /\ tobjs' = <<>>
    /\ segCalls' = <<>>
    /\ phases' = <<"Init">>
    /\ pc' = "layers"
    /\ UNCHANGED <<cfg, balance, result, first, geomvars, maskvars, clsvars, pathvars>>

\* the images for which the mask loss is evaluated at a layer
MaskImages(rec) == Unique([n \in 1 .. Len(rec.indices) |-> rec.indices[n][1]])

\* the single_mask_loss calls of layer i, in call order
MaskCalls(i, rec, overlap, mk) ==
    LET u == MaskImages(rec)
    IN  [m \in 1 .. Len(u) |-> MaskCallArgs(i, rec, u[m], overlap, mk)]

\* __call__, step 4: one iteration of the loop over the layers of p
Layer ==
    /\ pc = "layers"
    /\ li < npl
    /\ li < nl
    /\ LET rec   == bt[li]
           n     == Len(rec.indices)
           shape == grids(cfg.base)[li]
           calls == IF n > 0 THEN MaskCalls(li, rec, cfg.overlap, masks) ELSE <<>>
       IN  \E tobj \in (IF n > 0 THEN ScatterOutcomes(rec, shape)
                        ELSE {[c \in Cells(shape) |-> RZero]}) :
             /\ acc' = [lbox |-> IF n > 0 THEN RAdd(acc.lbox, BoxLoss(rec)) ELSE acc.lbox,
                        lcls |-> IF n > 0 /\ nc > 1 THEN RAdd(acc.lcls, ClsLoss(rec)) ELSE acc.lcls,
                        lseg |-> RAdd(acc.lseg, RSum([m \in 1 .. Len(calls) |-> single_mask_loss(calls[m])])),
                        lobj |-> LobjAdded(acc.lobj, ObjLoss(tobj), balance[li + 1])]
             /\ tobjs' = Append(tobjs, tobj)
             /\ segCalls' = segCalls \o calls
    /\ phases' = Append(phases, <<"Layer", li>>)
    \* autobalance: obji.detach() raises AttributeError, a tf tensor has no
    \* such method, before self.balance[i] is assigned
    /\ IF cfg.autobalance
       THEN pc' = "error" /\ li' = li
       ELSE pc' = "layers" /\ li' = li + 1
    /\ UNCHANGED <<cfg, balance, targets, bt, result, first, ncalls, npl, masks, geomvars, maskvars, clsvars, pathvars>>

\* __call__, step 4.1 for a layer of p beyond the configured ones:
\* indices[i] raises IndexError, build_targets made nl records only
LayerIndexError ==
    /\ pc = "layers"
    /\ li < npl
    /\ li >= nl
    /\ pc' = "error"
    /\ UNCHANGED <<cfg, balance, targets, bt, li, acc, tobjs, segCalls, phases, result, first, ncalls, npl, masks, geomvars, maskvars, clsvars, pathvars>>

\* self.ssi = list(stride).index(16) if autobalance else 0, stride = 8, 16, ..
ssi(autobalance) == IF autobalance THEN 1 ELSE 0

\* self.balance = [x / self.balance[self.ssi] for x in self.balance]
Renormalised(bal, autobalance) ==
    [x \in 1 .. Len(bal) |-> RDiv(bal[x], bal[ssi(autobalance) + 1])]

\* variant: the segmentation sum is not averaged over the batch
ReturnedSegNotAveraged(a) ==
    LET lbox == RMul(a.lbox, box_lg)
        lobj == RMul(a.lobj, obj_lg)
        lcls == RMul(a.lcls, cls_lg)
        lseg == RMul(a.lseg, box_lg)
        loss == RAdd(RAdd(lbox, lobj), RAdd(lcls, lseg))
    IN  [loss |-> RMul(loss, <<bs, 1>>), comps |-> <<lbox, lseg, lobj, lcls>>]

\* variant: the total is returned without the batch-size factor
ReturnedUnscaledTotal(a) ==
    LET lbox == RMul(a.lbox, box_lg)
        lobj == RMul(a.lobj, obj_lg)
        lcls == RMul(a.lcls, cls_lg)
        lseg == RMul(a.lseg, RDiv(box_lg, <<bs, 1>>))
        loss == RAdd(RAdd(lbox, lobj), RAdd(lcls, lseg))
    IN  [loss |-> loss, comps |-> <<lbox, lseg, lobj, lcls>>]

\* the value returned: loss * bs and (lbox, lseg, lobj, lcls) after the gains
Returned(a) ==
    LET lbox == RMul(a.lbox, box_lg)
        lobj == RMul(a.lobj, obj_lg)
        lcls == RMul(a.lcls, cls_lg)
        lseg == RMul(a.lseg, RDiv(box_lg, <<bs, 1>>))
        loss == RAdd(RAdd(lbox, lobj), RAdd(lcls, lseg))
    IN  [loss |-> RMul(loss, <<bs, 1>>), comps |-> <<lbox, lseg, lobj, lcls>>]

\* __call__, after the loop: renormalise, apply the gains, return
Finalize ==
    /\ pc = "layers"
    /\ li = npl
    /\ balance' = IF cfg.autobalance THEN Renormalised(balance, cfg.autobalance) ELSE balance
    /\ result' = Returned(acc)
    /\ first' = IF first = <<>> THEN [targets |-> targets, npl |-> npl, masks |-> masks, result |-> Returned(acc)]
                ELSE first
    /\ phases' = Append(phases, "Finalize")
    /\ pc' = "done"
    /\ UNCHANGED <<cfg, targets, bt, li, acc, tobjs, segCalls, ncalls, npl, masks, geomvars, maskvars, clsvars, pathvars>>

\* the first call takes any list; a later call repeats the list of the first
\* returned call (or of the current one) or takes one of LaterLists
CallInputs ==
    IF ncalls = 0 THEN TargetLists
    ELSE LaterLists \cup {IF first = <<>> THEN targets ELSE first.targets}

\* the layer counts a list is handed over with
CallLayerCounts(tg) ==
    IF ncalls = 0
    THEN (IF tg \in MismatchLists THEN PredLayerCounts ELSE {nl})
    ELSE {IF first = <<>> THEN npl ELSE first.npl}

\* the masks a list is handed over with: a first call on several instances
\* takes any of the masks of its mode, a repeated list comes with the masks
\* it had
CallMasks(tg) ==
    IF ncalls = 0
    THEN (IF cfg.overlap /\ Len(tg) >= 2 THEN OverlapMasks ELSE {DefaultMasks(tg, cfg.overlap)})
    ELSE IF first # <<>> /\ tg = first.targets THEN {first.masks}
    ELSE IF tg = targets THEN {masks}
    ELSE {DefaultMasks(tg, cfg.overlap)}

\* a call of the loss on one of the admitted lists
CallLoss ==
    \E tg \in CallInputs : \E np \in CallLayerCounts(tg) : \E mk \in CallMasks(tg) : Call(tg, np, mk)

Next ==
    \/ CallLoss
    \/ Layer
    \/ LayerIndexError
    \/ Finalize

Spec == Init /\ [][Next]_vars

TypeOK ==
    /\ pc \in {"idle", "layers", "done", "error"}
    /\ li \in 0 .. nl
    /\ ncalls \in 0 .. MaxCalls

\* ================================================================== claims
InCall == pc \in {"layers", "done", "error"}

Shape(i) == grids(cfg.base)[i]

\* positions, in the record of layer i, of the entries of the pair made of
\* anchor a and of the k-th listed instance
PairEntries(i, a, k) ==
    {n \in 1 .. Len(bt[i].src) : bt[i].src[n] = k /\ bt[i].indices[n][2] = a}

\* width and height of the k-th listed instance in grid units of layer i
GridW(i, k) == targets[k].w * Shape(i)[2]

GridH(i, k) == targets[k].h * Shape(i)[1]

GridX(i, k) == targets[k].x * Shape(i)[2]

GridY(i, k) == targets[k].y * Shape(i)[1]

\* the ratio s/t or its reciprocal is strictly greater than anchor_t
Exceeds(s, t) == s = 0 \/ s > anchor_t * t \/ t > anchor_t * s

LargestRatioExceeds(i, a, k) ==
    \/ Exceeds(GridW(i, k), anchors(i, a)[1])
    \/ Exceeds(GridH(i, k), anchors(i, a)[2])

\* C1 (as claimed): at every layer a pair is dropped if and only if its
\* largest ratio is strictly greater than anchor_t; a pair whose largest
\* ratio equals anchor_t is kept.
C1_DroppedIffExceeds ==
    InCall =>
        \A i \in Layers : \A a \in 0 .. (na - 1) : \A k \in 1 .. Len(targets) :
            (PairEntries(i, a, k) = {}) <=> LargestRatioExceeds(i, a, k)

\* C2 (as claimed): every surviving pair has between 1 and 3 entries at a
\* layer: its own cell, at most one horizontal and at most one vertical
\* neighbor, for every center in [0, 1] including the grid border.
C2_OneToThreeEntries ==
    InCall =>
        \A i \in Layers : \A a \in 0 .. (na - 1) : \A k \in 1 .. Len(targets) :
            LET E == PairEntries(i, a, k)
            IN  E # {} =>
                  /\ Cardinality(E) \in 1 .. 3
                  /\ Cardinality({n \in E : bt[i].o[n] = 1}) = 1
                  /\ Cardinality({n \in E : bt[i].o[n] \in {2, 4}}) <= 1
                  /\ Cardinality({n \in E : bt[i].o[n] \in {3, 5}}) <= 1

\* every sequence of the record of layer i is empty
EmptyRecord(i) ==
    /\ Len(bt[i].indices) = 0 /\ Len(bt[i].tcls) = 0 /\ Len(bt[i].tbox) = 0
    /\ Len(bt[i].anchors) = 0 /\ Len(bt[i].tidxs) = 0 /\ Len(bt[i].xywhn) = 0

C4_SameLengths ==
    InCall =>
        \A i \in Layers :
            LET n == Len(bt[i].o)
            IN  /\ Len(bt[i].indices) = n /\ Len(bt[i].tcls) = n /\ Len(bt[i].tbox) = n
                /\ Len(bt[i].anchors) = n /\ Len(bt[i].tidxs) = n /\ Len(bt[i].xywhn) = n

\* C5 (as claimed): the x cell of every entry lies in [0, grid width - 1] and
\* its y cell in [0, grid height - 1], for any grid dimensions.
C5_CellInsideGrid ==
    InCall =>
        \A i \in Layers : \A n \in 1 .. Len(bt[i].indices) :
            /\ bt[i].indices[n][3] \in 0 .. (Shape(i)[2] - 1)
            /\ bt[i].indices[n][4] \in 0 .. (Shape(i)[1] - 1)

\* the rank of the k-th listed instance among the instances of its image
RankInImage(k) == Cardinality({m \in 1 .. k : targets[m].img = targets[k].img})

\* C6 (as claimed): in overlap mode, for any order of the list, the j-th
\* listed instance of an image carries the running index j on every entry.
C6_IndexLocalToImage ==
    (InCall /\ cfg.overlap) =>
        \A i \in Layers : \A n \in 1 .. Len(bt[i].tidxs) :
            bt[i].tidxs[n] = RankInImage(bt[i].src[n])

\* the center of the only instance is the center of a cell of layer i
AtCellCenter(i) ==
    /\ Len(targets) = 1
    /\ 2 * (GridX(i, 1) % XD) = XD
    /\ 2 * (GridY(i, 1) % XD) = XD

\* C7: a single instance at the exact center of a cell of a layer gets, at
\* that layer, one entry per anchor passing the ratio filter and no entry
\* for a neighbor cell, whichever cell it is.
C7_CellCenterNoDuplicate ==
    InCall =>
        \A i \in Layers :
            AtCellCenter(i) =>
                /\ \A n \in 1 .. Len(bt[i].o) : bt[i].o[n] = 1
                /\ \A a \in 0 .. (na - 1) :
                      Cardinality(PairEntries(i, a, 1)) =
                          IF RatioBelow(GridW(i, 1), anchors(i, a)[1])
                             /\ RatioBelow(GridH(i, 1), anchors(i, a)[2])
                          THEN 1 ELSE 0
                /\ Len(bt[i].indices) = Cardinality({a \in 0 .. (na - 1) : PairEntries(i, a, 1) # {}})

C7_Witness ==
    /\ pc = "layers"
    /\ \E i \in Layers : AtCellCenter(i) /\ Len(bt[i].indices) = na /\ GridX(i, 1) < XD

\* the images with at least one entry in the record of layer i
MatchedImages(i) == {bt[i].indices[n][1] : n \in 1 .. Len(bt[i].indices)}

C9_SameInputsSameResult ==
    (~ cfg.autobalance) =>
        /\ balance = InitBalance
        /\ (pc = "done" /\ first # <<>> /\ targets = first.targets /\ npl = first.npl /\ masks = first.masks) =>
              result = first.result

\* the phases of a complete call
AllPhases == <<"Init">> \o [m \in 1 .. nl |-> <<"Layer", m - 1>>] \o <<"Finalize">>

\* C10 (as claimed): a call on well-formed inputs goes through Init, the layers 0..nl-1 in order,
\* each once, then Finalize, and always reaches Finalize and returns.
C10_PhasesAndReturn ==
    (InCall /\ npl = nl) =>
        /\ pc # "error"
        /\ phases = SubSeq(AllPhases, 1, Len(phases))
        /\ pc = "done" => phases = AllPhases

\* p/q = r/s for rationals given as pairs
REq(p, q) == p[1] * q[2] = q[1] * p[2]

\* C11: the returned component vector is (box, segmentation, object, class):
\* box, object and class are their accumulators times their gains, the
\* segmentation entry is its accumulator, the sum of the mask losses over
\* layers and images, times the box gain and divided by the batch size.
C11_ComponentVector ==
    pc = "done" =>
        /\ Len(result.comps) = 4
        /\ REq(result.comps[1], <<acc.lbox[1] * box_lg[1], acc.lbox[2] * box_lg[2]>>)
        /\ REq(result.comps[2], <<acc.lseg[1] * box_lg[1], acc.lseg[2] * box_lg[2] * bs>>)
        /\ REq(result.comps[3], <<acc.lobj[1] * obj_lg[1], acc.lobj[2] * obj_lg[2]>>)
        /\ REq(result.comps[4], <<acc.lcls[1] * cls_lg[1], acc.lcls[2] * cls_lg[2]>>)
        /\ acc.lseg = RSum([m \in 1 .. Len(segCalls) |-> single_mask_loss(segCalls[m])])

C11_Witness ==
    /\ pc = "done"
    /\ Len(segCalls) >= 2
    /\ \A c \in 1 .. 4 : result.comps[c] # RZero
    /\ result.comps[1] # result.comps[2]

C13_LayerCountMismatchFails ==
    (InCall /\ npl # nl) => pc # "done"

\* the instance and neighbor offset an entry of layer i comes from: the cell
\* of its center after the offset, as <<column, row>> inside the grid
EntryCell(i, n) ==
    LET k  == bt[i].src[n]
        o  == bt[i].o[n]
    IN  <<ClipByValue(TruncDiv(2 * GridX(i, k) - off[o][1] * XD, 2 * XD), 0, Shape(i)[2] - 1),
          ClipByValue(TruncDiv(2 * GridY(i, k) - off[o][2] * XD, 2 * XD), 0, Shape(i)[1] - 1)>>

\* b, a, gj, gi = tf.unstack(indices[i], 4, axis=1); pi[b, a, gj, gi] and
\* tobj[b, a, gj, gi] in the layout [b, na, gy, gx]: gj is the row, gi the column
GatheredRow(i, n) == bt[i].indices[n][3]

GatheredCol(i, n) == bt[i].indices[n][4]

\* C18 (as claimed): for every entry the prediction gathered, and the cell of
\* the objectness grid written, is at row = cell of the center's y and
\* column = cell of the center's x, after the neighbor offset.
C18_GatherRowIsY ==
    InCall =>
        \A i \in Layers : \A n \in 1 .. Len(bt[i].indices) :
            /\ GatheredRow(i, n) = EntryCell(i, n)[2]
            /\ GatheredCol(i, n) = EntryCell(i, n)[1]

\* the own cell <<column, row>> of the k-th listed instance at layer i
OwnCell(i, k) ==
    <<Min(GridX(i, k) \div XD, Shape(i)[2] - 1), Min(GridY(i, k) \div XD, Shape(i)[1] - 1)>>

\* the pair (a, k) has an entry at layer i whose cell, as build_targets
\* stores it (x cell, y cell), is c
HasEntryAt(i, a, k, c) ==
    \E n \in PairEntries(i, a, k) : bt[i].indices[n][3] = c[1] /\ bt[i].indices[n][4] = c[2]

\* C19 (as claimed): a surviving pair whose center is in the left half of its
\* cell with grid x greater than 1 has an entry in the cell to the left of
\* its own; one in the top half with grid y greater than 1 has an entry in
\* the cell above.
C19_LeftUpNeighbor ==
    InCall =>
        \A i \in Layers : \A a \in 0 .. (na - 1) : \A k \in 1 .. Len(targets) :
            PairEntries(i, a, k) # {} =>
                /\ (2 * (GridX(i, k) % XD) < XD /\ GridX(i, k) > XD) =>
                      HasEntryAt(i, a, k, <<OwnCell(i, k)[1] - 1, OwnCell(i, k)[2]>>)
                /\ (2 * (GridY(i, k) % XD) < XD /\ GridY(i, k) > XD) =>
                      HasEntryAt(i, a, k, <<OwnCell(i, k)[1], OwnCell(i, k)[2] - 1>>)

\* C20 (as claimed): a surviving pair whose center is in the right half of
\* its cell and more than one cell from the right border has an entry in the
\* cell to the right of its own, likewise below for the bottom half; a center
\* in the last column (row) has no right (lower) neighbor entry.
C20_RightDownNeighbor ==
    InCall =>
        \A i \in Layers : \A a \in 0 .. (na - 1) : \A k \in 1 .. Len(targets) :
            LET E == PairEntries(i, a, k)
                W == Shape(i)[2]
                H == Shape(i)[1]
            IN  E # {} =>
                  /\ (2 * (GridX(i, k) % XD) > XD /\ W * XD - GridX(i, k) > XD) =>
                        HasEntryAt(i, a, k, <<OwnCell(i, k)[1] + 1, OwnCell(i, k)[2]>>)
                  /\ (2 * (GridY(i, k) % XD) > XD /\ H * XD - GridY(i, k) > XD) =>
                        HasEntryAt(i, a, k, <<OwnCell(i, k)[1], OwnCell(i, k)[2] + 1>>)
                  /\ (GridX(i, k) >= (W - 1) * XD) => \A n \in E : bt[i].o[n] # 4
                  /\ (GridY(i, k) >= (H - 1) * XD) => \A n \in E : bt[i].o[n] # 5

\* the same statement on grids with as many rows as columns
C20_OnSquareGrids == (cfg.base[1] = cfg.base[2]) => C20_RightDownNeighbor

\* C14: converting a corner-format box to center format and back, or a
\* center-format box to corner format and back, gives the box again.
C14_RoundTrip ==
    /\ gtrace = <<"xyxy2xywh", "xywh2xyxy">> => gret.val = gparm.array
    /\ gtrace = <<"xywh2xyxy", "xyxy2xywh">> => gret.val = gparm.array

C14_Witness ==
    /\ gtrace = <<"xyxy2xywh", "xywh2xyxy">>
    /\ gret.val = gparm.array
    /\ gparm.array[1][1] # gparm.array[1][3]
    /\ (gparm.array[1][3][1] - gparm.array[1][1][1]) % 2 = 1

\* every x of the boxes lies in [0, w] and every y in [0, h], and is below
\* the bound when strict
BoxesWithin(boxes, shape, strict) ==
    \A r \in 1 .. Len(boxes) : \A c \in 1 .. 4 :
        LET hi == IF c \in {1, 3} THEN <<shape[2], 1>> ELSE <<shape[1], 1>>
        IN  /\ ~ RLess(boxes[r][c], RZero)
            /\ ~ RLess(hi, boxes[r][c])
            /\ strict => RLess(boxes[r][c], hi)

\* C15 (as claimed): every x returned by scale_boxes lies in [0, img0 width)
\* and every y in [0, img0 height), strictly below the destination dimension.
C15_StrictlyBelow ==
    gtrace = <<"scale_boxes">> => BoxesWithin(gret.val, gparm.img0, TRUE)

\* C15 (amended): scale_boxes subtracts the padding and divides by the gain,
\* and every returned x lies in [0, img0 width], every returned y in
\* [0, img0 height], the bounds included; a coordinate strictly inside the
\* range is the input minus the padding, divided by the gain.
C15_ClampedInclusive ==
    gtrace = <<"scale_boxes">> =>
        /\ Len(gret.val) = Len(gparm.array)
        /\ BoxesWithin(gret.val, gparm.img0, FALSE)
        /\ \A r \in 1 .. Len(gret.val) : \A c \in 1 .. 4 :
              LET hi   == IF c \in {1, 3} THEN <<gparm.img0[2], 1>> ELSE <<gparm.img0[1], 1>>
                  gain == ScaleGain(gparm.img1, gparm.img0, gparm.ratio_pad)
                  pad  == ScalePad(gparm.img1, gparm.img0, gparm.ratio_pad)[IF c \in {1, 3} THEN 1 ELSE 2]
                  v    == gret.val[r][c]
              IN  (RLess(RZero, v) /\ RLess(v, hi)) =>
                      RAdd(RMul(v, gain), pad) = gparm.array[r][c]

C15_Witness ==
    /\ gtrace = <<"scale_boxes">>
    /\ gret.val[1][3] = <<gparm.img0[2], 1>>
    /\ RLess(RZero, gret.val[1][1]) /\ RLess(gret.val[1][1], <<gparm.img0[2], 1>>)
    /\ gret.val[1][1] # gparm.array[1][1]

\* C16 (as claimed): every geometry utility leaves the array passed to it
\* unchanged and delivers its result as the return value.
C16_SideEffectFree ==
    gtrace # <<>> =>
        /\ garg = gparm.array
        /\ gret.kind = "array"

\* C17: the mask loss is unchanged when the coefficients are multiplied by a
\* non-zero k and the prototype is divided by k.
C17_ScaleInvariant ==
    (mres.plain.done /\ mres.scaled.done) => mres.scaled.val = mres.plain.val

C17_Witness ==
    /\ mres.plain.done /\ mres.scaled.done
    /\ minp.k # <<1, 1>>
    /\ Len(minp.pmask) = 2
    /\ \E n \in 1 .. 2 : \E px \in 1 .. MaskPixels :
          /\ mres.plain.val[n].pixels[px].in
          /\ mres.plain.val[n].pixels[px].logit # RZero
    /\ Scaled(minp.pmask, minp.k) # minp.pmask

\* the cells <<x cell, y cell>> of two entries are side by side or one above
\* the other
AdjacentCells(c, d) == Abs(c[3] - d[3]) + Abs(c[4] - d[4]) = 1

\* C21 (as claimed): the entries of one surviving pair at one layer occupy
\* pairwise distinct cells, every neighbor entry lying in a cell adjacent to
\* the pair's own cell, so no (image, anchor, row, col) gets the pair twice.
C21_DistinctCells ==
    InCall =>
        \A i \in Layers : \A a \in 0 .. (na - 1) : \A k \in 1 .. Len(targets) :
            \A n1 \in PairEntries(i, a, k) : \A n2 \in PairEntries(i, a, k) :
                (n1 # n2) =>
                    /\ bt[i].indices[n1] # bt[i].indices[n2]
                    /\ bt[i].o[n1] = 1 => AdjacentCells(bt[i].indices[n1], bt[i].indices[n2])

\* the entries of layer i whose (image, anchor, cell) coordinate is c
MatchesAt(i, c) == {n \in 1 .. Len(bt[i].indices) : bt[i].indices[n] = c}

\* max(iou, 0) of entry n of layer i
SoftTarget(i, n) == IF RLess(Iou(bt[i], n), RZero) THEN RZero ELSE Iou(bt[i], n)

\* C22: after the scatter step of a layer the objectness grid covers every
\* cell of the layer; a cell without match holds 0, a cell with matches
\* holds max(iou, 0) of one of them, and no cell holds a negative value.
C22_ScatteredTargets ==
    InCall =>
        \A m \in 1 .. Len(tobjs) :
            /\ DOMAIN tobjs[m] = Cells(Shape(m - 1))
            /\ \A c \in DOMAIN tobjs[m] :
                  /\ ~ RLess(tobjs[m][c], RZero)
                  /\ MatchesAt(m - 1, c) = {} => tobjs[m][c] = RZero
                  /\ MatchesAt(m - 1, c) # {} =>
                        \E n \in MatchesAt(m - 1, c) : tobjs[m][c] = SoftTarget(m - 1, n)

C22_Witness ==
    /\ pc = "done"
    /\ \E m \in 1 .. Len(tobjs) : \E c \in DOMAIN tobjs[m] :
          /\ \E n1 \in MatchesAt(m - 1, c) : \E n2 \in MatchesAt(m - 1, c) :
                SoftTarget(m - 1, n1) # SoftTarget(m - 1, n2)
          /\ RLess(RZero, tobjs[m][c])
    /\ \E m \in 1 .. Len(tobjs) : \E c \in DOMAIN tobjs[m] :
          /\ \E n \in MatchesAt(m - 1, c) : RLess(Iou(bt[m - 1], n), RZero)
          /\ tobjs[m][c] = RZero
    /\ \E m \in 1 .. Len(tobjs) : \E c \in DOMAIN tobjs[m] : MatchesAt(m - 1, c) = {}

\* the layers whose loop iteration has run in the current call
LayersRun == Len(phases) - 1 - (IF pc = "done" THEN 1 ELSE 0)

\* C23: every layer the loop has gone through, with or without matches, has
\* its objectness loss computed over all the cells of the layer and added
\* to the object accumulator times the layer's balance weight; a returned
\* call has done so for each of its layers; the weights of a 3-layer
\* configuration are (4.0, 1.0, 0.4).
C23_ObjectLossEveryLayer ==
    InCall =>
        /\ Len(tobjs) = LayersRun
        /\ \A m \in 1 .. Len(tobjs) : DOMAIN tobjs[m] = Cells(Shape(m - 1))
        /\ acc.lobj = RSum([m \in 1 .. Len(tobjs) |-> RMul(ObjLoss(tobjs[m]), balance[m])])
        /\ (pc = "done" /\ npl = nl) => Len(tobjs) = nl
        /\ BalanceTable(3) = <<<<4, 1>>, <<1, 1>>, <<2, 5>>>>

C23_Witness ==
    /\ pc = "done"
    /\ npl = nl
    /\ \E i \in Layers : Len(bt[i].indices) = 0
    /\ \E i \in Layers : Len(bt[i].indices) > 0
    /\ balance[1] # balance[2]
    /\ acc.lobj # RSum([m \in 1 .. Len(tobjs) |-> ObjLoss(tobjs[m])])

\* C24 (as claimed): with autobalance enabled a call goes through its
\* layers, replacing the weight of each by 0.9999 times its old value plus
\* 0.0001 divided by the layer's objectness loss, and returns with every
\* weight divided by the weight of the reference (stride-16) layer, so that
\* the reference weight is 1 at the end of every call.
C24_ReferenceWeightIsOne ==
    (cfg.autobalance /\ InCall /\ npl = nl) =>
        /\ pc # "error"
        /\ (pc = "layers" /\ ncalls = 1) =>
              \A m \in 1 .. LayersRun :
                  balance[m] = RAdd(RMul(<<9999, 10000>>, InitBalance[m]),
                                    RDiv(<<1, 10000>>, ObjLoss(tobjs[m])))
        /\ pc = "done" => balance[ssi(TRUE) + 1] = <<1, 1>>

\* C25: for targets of non-negative width and height, no entry of any layer
\* comes from an instance of zero width or zero height, so the normalized
\* area handed to the mask loss as a divisor is strictly positive.
C25_NoZeroAreaSurvives ==
    InCall =>
        /\ \A i \in Layers : \A n \in 1 .. Len(bt[i].src) :
              /\ targets[bt[i].src[n]].w > 0 /\ targets[bt[i].src[n]].h > 0
              /\ bt[i].xywhn[n][3] > 0 /\ bt[i].xywhn[n][4] > 0
        /\ \A m \in 1 .. Len(segCalls) : \A n \in segCalls[m].j :
              RLess(RZero, segCalls[m].area[n])

C25_Witness ==
    /\ pc = "done"
    /\ \E k \in 1 .. Len(targets) : targets[k].w = 0 /\ targets[k].h > 0
    /\ \E k \in 1 .. Len(targets) : \E i \in Layers : \E a \in 0 .. (na - 1) :
          PairEntries(i, a, k) # {}
    /\ Len(segCalls) > 0

\* C26: for centers in [0, 1] and grids with as many rows as columns, the
\* offset of every entry's target box from the corner of its assigned cell
\* lies in [-0.5, 1.5] on both axes, for own-cell and neighbor entries.
C26_OffsetWithinReach ==
    (InCall /\ cfg.base[1] = cfg.base[2]) =>
        \A i \in Layers : \A n \in 1 .. Len(bt[i].tbox) : \A c \in 1 .. 2 :
            /\ 2 * bt[i].tbox[n][c] >= -XD
            /\ 2 * bt[i].tbox[n][c] <= 3 * XD

C26_Witness ==
    /\ InCall
    /\ cfg.base[1] = cfg.base[2]
    /\ \E i \in Layers : \E n \in 1 .. Len(bt[i].tbox) :
          /\ bt[i].o[n] # 1
          /\ bt[i].tbox[n][2] < 0
          /\ bt[i].tbox[n][1] = XD

C29_GlobalIndexOneBased ==
    (InCall /\ ~ cfg.overlap) =>
        \A i \in Layers : \A n \in 1 .. Len(bt[i].tidxs) :
            bt[i].tidxs[n] = bt[i].src[n]

C30_FreshPath ==
    /\ (Len(phist) > 0 /\ ~ phist[Len(phist)].exist_ok) =>
          LET c  == phist[Len(phist)]
          IN  /\ ~ c.raised
              /\ ~ PathExists(pbefore, c.ret)
              /\ ~ PathExists(pbefore, c.path) => c.ret = c.path
              /\ PathExists(pbefore, c.path) =>
                    \E n \in 2 .. IncrementStop :
                        /\ c.ret = Candidate(pbefore, c.path, n)
                        /\ \A m \in 2 .. (n - 1) : PathExists(pbefore, Candidate(pbefore, c.path, m))
    /\ \A i \in 1 .. Len(phist) : \A j \in 1 .. Len(phist) :
          (/\ i < j
           /\ phist[i].path = phist[j].path
           /\ phist[i].mkdir /\ phist[j].mkdir
           /\ ~ phist[i].exist_ok /\ ~ phist[j].exist_ok) => phist[i].ret # phist[j].ret

====
